---- MODULE Spec2Model ----
(***************************************************************************)
(* A model of the HowBoutNo ASGI middleware (src/src/howboutno/main.py)    *)
(* and of its configuration model (src/src/howaboutno/model.py).           *)
(*                                                                         *)
(* One request is handled in two atomic steps, split at the only await     *)
(* after which shared state is touched again: Request runs __call__ from   *)
(* its entry to the await of the ip-api.com lookup (or to its return when  *)
(* no lookup is needed), LookupReturn runs it from the upstream answer to  *)
(* its return.  The awaits of send() and of the downstream app are the     *)
(* last thing a path does, so they are folded into the step that reaches   *)
(* them.  Time is an integer clock advanced by Tick.                       *)
(***************************************************************************)
EXTENDS Integers, Sequences, FiniteSets, TLC

VARIABLES
    config,     \* self.config: the validated config_, or None
    cache,      \* self.cache contents: canonical ip -> entry, or None when absent
    lru,        \* self.cache recency order, least recently used first
    reset,      \* self.reset
    now,        \* time.time()
    req,        \* per in-flight call of __call__: where it is suspended
    last        \* what the last step did: its inputs and what it emitted

vars == <<config, cache, lru, reset, now, req, last>>

(***************************************************************************)
(* Bounds of the model.                                                    *)
(***************************************************************************)
MaxTime == 3

Procs == {"r1", "r2"}

(***************************************************************************)
(* Python values.                                                          *)
(***************************************************************************)
None == [py_none |-> TRUE]

\* the exception a step ended with, "" when it returned normally
NoError == ""

(***************************************************************************)
(* ipaddress: the client strings of the model, their canonical text and    *)
(* their classification.                                                   *)
(***************************************************************************)
\* ipaddress.ip_address(s) raises ValueError on these
Malformed(s) == s \in {"bogus", " 5.6.7.8", " 1.2.3.4 "}

\* str.strip()
strip(s) ==
    CASE s = " 5.6.7.8"  -> "5.6.7.8"
      [] s = " 1.2.3.4 " -> "1.2.3.4"
      [] s = " /health " -> "/health"
      [] s = "/health "  -> "/health"
      [] OTHER           -> s

\* str(ipaddress.ip_address(s)) for a well-formed s: IPv6 text is compressed
ip_address(s) ==
    CASE s = "2606:4700:0:0:0:0:0:1111" -> "2606:4700::1111"
      [] OTHER                          -> s

is_private(ip) == ip \in {"10.0.0.1"}

\* A faulty is_reserved: only private addresses are turned away.  C13 fails on it.
is_reserved_Never(ip) == FALSE

is_reserved(ip) == ip \in {"240.0.0.1"}

PublicIPs == {"1.2.3.4", "5.6.7.8", "2606:4700::1111"}

\* The private and the reserved address, as ip_address() renders them (main.py line 66)
NonPublicIPs == {"10.0.0.1", "240.0.0.1"}

\* Every key self.cache can be asked for: str(ip_address(...)) of a well-formed client address
Addresses == PublicIPs \cup NonPublicIPs

(***************************************************************************)
(* Python's `in` operator.  On a list it is membership.  On a pydantic     *)
(* BaseModel, which defines __iter__ and no __contains__, it walks the     *)
(* (field name, value) pairs of the model and compares each with the left  *)
(* operand; a str is never equal to a tuple.                               *)
(***************************************************************************)
InList(x, list) == x \in list

ModelItems(m) == {<<f, m[f]>> : f \in DOMAIN m}

StrEqTuple(s, t) == FALSE

StrInModel(s, m) == \E item \in ModelItems(m) : StrEqTuple(s, item)

(***************************************************************************)
(* model.py: response_model_ and the response objects it builds.           *)
(***************************************************************************)
\* str.upper() after str.strip(), on the spellings the model uses
upper(s) ==
    CASE s = "json" -> "JSON"
      [] s = "html" -> "HTML"
      [] s = " text " -> "TEXT"
      [] s = "as" -> "AS"
      [] s = " cn" -> "CN"
      [] OTHER -> s

\* str.lower() after str.strip()
lower(s) ==
    CASE s = "Bad.Example.COM " -> "bad.example.com"
      [] OTHER -> s

\* json.dumps(json.loads(s)): the text is re-serialised with ", " and ": "
JsonRoundTrip(s) ==
    CASE s = "{\"detail\":\"nope\"}" -> "{\"detail\": \"nope\"}"
      [] OTHER -> s

\* response_model_.validate_return_type
validate_return_type(m) == [m EXCEPT !.return_as = upper(m.return_as)]

response_model_(response, status_code, return_as) ==
    validate_return_type(
        [response |-> response, status_code |-> status_code, return_as |-> return_as])

\* response_model_.get_response_obj followed by the call of the object with send:
\* the two events JSON / HTML / TEXT .__call__ sends
get_response_obj(m) ==
    LET ctype == CASE m.return_as = "JSON" -> "application/json"
                   [] m.return_as = "HTML" -> "text/html"
                   [] m.return_as = "TEXT" -> "text/plain"
        body == IF m.return_as = "JSON" THEN JsonRoundTrip(m.response) ELSE m.response
    IN  << [type |-> "http.response.start", status |-> m.status_code,
            headers |-> << <<"content-type", ctype>> >>],
           [type |-> "http.response.body", body |-> body] >>

\* the default of every per-category field of response_
Forbidden == response_model_("{\"detail\": \"Forbidden\"}", 403, "JSON")

\* the 503 the middleware writes itself
ServiceUnavailable ==
    << [type |-> "http.response.start", status |-> 503,
        headers |-> << <<"content-type", "application/json">> >>],
       [type |-> "http.response.body", body |-> "{\"detail\": \"Service Unavailable\"}"] >>

\* the 503 of the rate-limited branch, with Retry-After: str(self.reset)
RateLimited(reset_at) ==
    << [type |-> "http.response.start", status |-> 503,
        headers |-> << <<"content-type", "application/json">>,
                       <<"Retry-After", ToString(reset_at)>> >>],
       [type |-> "http.response.body", body |-> "{\"detail\": \"Service Unavailable\"}"] >>

(***************************************************************************)
(* model.py: the sections of config_ and their validators.                 *)
(***************************************************************************)
block_ip_(value) == [block_ip |-> {ip_address(strip(ip)) : ip \in value}]

block_continent_(value) == [block_continent |-> {upper(code) : code \in value}]

block_country_(value) == [block_country |-> {upper(code) : code \in value}]

block_asn_(value) == [block_asn |-> value]

block_rdns_hostname_(value) == [block_rdns_hostname |-> {lower(h) : h \in value}]

block_bad_ip_(inbound, outbound) ==
    [block_inbound_bad_ip |-> inbound, block_outbound_bad_ip |-> outbound]

allow_hosting_(b) == [allow_hosting |-> b]

allow_proxy_(b) == [allow_proxy |-> b]

exception_ip_(value) == [exception_ip |-> {ip_address(strip(ip)) : ip \in value}]

exception_path_(value) == [exception_path |-> {strip(path) : path \in value}]

cache_(size, success_after, error_after) ==
    [size |-> size, invalidate_success_after |-> success_after,
     invalidate_error_after |-> error_after]

\* response_ with every per-category field left at its default
response_(all) ==
    [all |-> all, ip |-> Forbidden, continent |-> Forbidden, country |-> Forbidden,
     asn |-> Forbidden, rdns_hostname |-> Forbidden, bad_ip |-> Forbidden,
     hosting |-> Forbidden, proxy |-> Forbidden]

\* response_ with a [response.<category>] table for every category
response_custom(all) ==
    [all |-> all,
     ip |-> response_model_("{\"detail\":\"nope\"}", 403, "json"),
     continent |-> response_model_("continent", 451, " text "),
     country |-> response_model_("country", 451, "TEXT"),
     asn |-> response_model_("asn", 403, "TEXT"),
     rdns_hostname |-> response_model_("rdns", 403, "TEXT"),
     bad_ip |-> response_model_("<h1>bad ip</h1>", 403, "html"),
     hosting |-> response_model_("hosting", 403, "TEXT"),
     proxy |-> response_model_("proxy", 403, "TEXT")]

\* a [response.all] table
AllSpec == response_model_("<h1>blocked</h1>", 451, "HTML")

\* config_.model_validate on a parsed TOML document
config_(raw) ==
    [block_ip |-> block_ip_(raw.block_ip),
     block_bad_ip |-> block_bad_ip_(raw.block_inbound_bad_ip, raw.block_outbound_bad_ip),
     block_continent |-> block_continent_(raw.block_continent),
     block_country |-> block_country_(raw.block_country),
     block_asn |-> block_asn_(raw.block_asn),
     block_rdns_hostname |-> block_rdns_hostname_(raw.block_rdns_hostname),
     allow_hosting |-> allow_hosting_(raw.allow_hosting),
     allow_proxy |-> allow_proxy_(raw.allow_proxy),
     exception_ip |-> exception_ip_(raw.exception_ip),
     exception_path |-> exception_path_(raw.exception_path),
     response |-> raw.response,
     cache |-> cache_(raw.size, raw.invalidate_success_after, raw.invalidate_error_after),
     disable_logging |-> [disable_logging |-> raw.disable_logging]]

(***************************************************************************)
(* main.py __init__: the bad-IP lists fetched at start-up.                 *)
(***************************************************************************)
inbound_bad_ip_list == {"1.2.3.4"}

outbound_bad_ip_list == {"1.2.3.4", "5.6.7.8"}

(***************************************************************************)
(* cachetools.LRUCache as main.py uses it: get and item assignment both    *)
(* make the key the most recently used; an assignment of a new key to a    *)
(* full cache first pops the least recently used keys.                     *)
(***************************************************************************)
Touch(order, key) == SelectSeq(order, LAMBDA k : k # key) \o <<key>>

InCache(c, key) == c[key] # None

\* A faulty LRUGetOrder: a lookup leaves the recency order alone, which makes the
\* cache evict in insertion order.  C12 fails on it.
LRUGetOrder_NoTouch(c, order, key) == order

\* the recency order after self.cache.get(key)
LRUGetOrder(c, order, key) == IF InCache(c, key) THEN Touch(order, key) ELSE order

\* A faulty Evicted: a full cache is taken to have room for one more key.
\* C11 fails on it.
Evicted_OffByOne(c, order, key, maxsize) ==
    IF InCache(c, key) \/ Len(order) <= maxsize
    THEN {}
    ELSE {order[i] : i \in 1..(Len(order) - maxsize)}

\* the keys popped by self.cache[key] = value
Evicted(c, order, key, maxsize) ==
    IF InCache(c, key) \/ Len(order) < maxsize
    THEN {}
    ELSE {order[i] : i \in 1..(Len(order) + 1 - maxsize)}

\* A faulty LRUSet: a key already in the cache keeps the record it has.  C25 fails on it.
LRUSet_KeepExisting(c, order, key, value, maxsize) ==
    [k \in DOMAIN c |->
        IF k = key THEN (IF InCache(c, key) THEN c[k] ELSE value)
        ELSE IF k \in Evicted(c, order, key, maxsize) THEN None
        ELSE c[k]]

\* the contents after self.cache[key] = value
LRUSet(c, order, key, value, maxsize) ==
    [k \in DOMAIN c |->
        IF k = key THEN value
        ELSE IF k \in Evicted(c, order, key, maxsize) THEN None
        ELSE c[k]]

\* the recency order after self.cache[key] = value
LRUSetOrder(c, order, key, maxsize) ==
    LET gone == Evicted(c, order, key, maxsize)
    IN  Touch(SelectSeq(order, LAMBDA k : k \notin gone), key)

(***************************************************************************)
(* The ip-api.com answer.                                                  *)
(***************************************************************************)
\* int(s.split(" ")[0][2:])
AsnOf(s) ==
    CASE s = "AS15169 Google LLC" -> 15169
      [] s = "AS13335 Cloudflare, Inc." -> 13335

Payload(continent, country, asname, reverse, hosting, proxy) ==
    [status |-> "success", continentCode |-> continent, countryCode |-> country,
     as |-> asname, reverse |-> reverse, hosting |-> hosting, proxy |-> proxy]

\* the body of a lookup the service could not resolve
FailPayload == [status |-> "fail"]

\* a JSON error document of a non-200 answer
ErrorJson == [message |-> "rate limited"]

\* an HTTP answer: content is "empty", "text" (not JSON) or "json"
HttpResponse(status_code, content, json, rl, ttl) ==
    [kind |-> "http", status_code |-> status_code, content |-> content,
     json |-> json, X_Rl |-> rl, X_Ttl |-> ttl]

\* client.get raised: no answer at all
TransportError == [kind |-> "transport_error", status_code |-> 0, content |-> "empty",
                   json |-> None, X_Rl |-> "", X_Ttl |-> ""]

\* a cache entry: {"data": {"status_code", "response"}, "last_updated"}
Entry(status_code, response, t) ==
    [data |-> [status_code |-> status_code, response |-> response], last_updated |-> t]

(***************************************************************************)
(* What a step hands back: the events it sent, how often it called the     *)
(* downstream app, the exception it ended with, the line it logged.        *)
(***************************************************************************)
Out(sent, app, raised, log) == [sent |-> sent, app |-> app, raised |-> raised, log |-> log]

ForwardOut == Out(<<>>, 1, NoError, "")

Raise(exc) == Out(<<>>, 0, exc, "")

Send(events) == Out(events, 0, NoError, "")

\* A faulty block_response_logger: the default 403 is sent whatever table is configured.
\* C16 fails on it.
block_response_logger_Default(cfg, resp, type) ==
    Out(get_response_obj(Forbidden), 0, NoError,
        IF ~cfg.disable_logging.disable_logging THEN type ELSE "")

\* block_response_logger(obj, type)
block_response_logger(cfg, resp, type) ==
    Out(get_response_obj(resp), 0, NoError,
        IF ~cfg.disable_logging.disable_logging THEN type ELSE "")

(***************************************************************************)
(* The block conditions.  main.py spells the chain out four times: after a *)
(* fresh lookup and on a cached record, each with response.all and with    *)
(* the per-category responses.  e is the enrichment read from the record:  *)
(* continent, country, asn, rdns_hostname, is_hosting, is_proxy.           *)
(***************************************************************************)
\* the asn of a record: the integer after "AS", or what the branch leaves for an
\* empty "as" field (the empty string after a fresh lookup, None on a cached record)
AsnInt(n) == [int |-> n]

\* asn in self.config.block_asn.block_asn: neither "" nor None equals an int
AsnInList(asn, list) == "int" \in DOMAIN asn /\ asn.int \in list

\* main.py lines 188-193
FreshEnrichment(j) ==
    [continent |-> j.continentCode, country |-> j.countryCode,
     asn |-> IF j.as # "" THEN AsnInt(AsnOf(j.as)) ELSE [str |-> j.as],
     rdns_hostname |-> j.reverse, is_hosting |-> j.hosting, is_proxy |-> j.proxy]

\* A faulty CachedEnrichment: is_hosting is read from the proxy field.  C17 fails on it.
CachedEnrichment_HostingFromProxy(j) ==
    [continent |-> j.continentCode, country |-> j.countryCode,
     asn |-> IF j.as # "" THEN AsnInt(AsnOf(j.as)) ELSE None,
     rdns_hostname |-> j.reverse, is_hosting |-> j.proxy, is_proxy |-> j.proxy]

\* main.py lines 246-251
CachedEnrichment(j) ==
    [continent |-> j.continentCode, country |-> j.countryCode,
     asn |-> IF j.as # "" THEN AsnInt(AsnOf(j.as)) ELSE None,
     rdns_hostname |-> j.reverse, is_hosting |-> j.hosting, is_proxy |-> j.proxy]

\* main.py lines 195-215
FreshRulesAll(cfg, ip, path, e) ==
    IF cfg.block_bad_ip.block_inbound_bad_ip /\ InList(ip, inbound_bad_ip_list)
        /\ ~InList(ip, cfg.exception_ip.exception_ip) /\ ~StrInModel(path, cfg.exception_path)
    THEN block_response_logger(cfg, cfg.response.all, "inbound bad IP")
    ELSE IF cfg.block_bad_ip.block_outbound_bad_ip /\ InList(ip, outbound_bad_ip_list)
        /\ ~InList(ip, cfg.exception_ip.exception_ip) /\ ~StrInModel(path, cfg.exception_path)
    THEN block_response_logger(cfg, cfg.response.all, "outbound bad IP")
    ELSE IF InList(e.continent, cfg.block_continent.block_continent)
        /\ ~InList(ip, cfg.exception_ip.exception_ip) /\ ~StrInModel(path, cfg.exception_path)
    THEN block_response_logger(cfg, cfg.response.all, "continent")
    ELSE IF InList(e.country, cfg.block_country.block_country)
        /\ ~InList(ip, cfg.exception_ip.exception_ip) /\ ~StrInModel(path, cfg.exception_path)
    THEN block_response_logger(cfg, cfg.response.all, "country")
    ELSE IF AsnInList(e.asn, cfg.block_asn.block_asn)
        /\ ~InList(ip, cfg.exception_ip.exception_ip) /\ ~StrInModel(path, cfg.exception_path)
    THEN block_response_logger(cfg, cfg.response.all, "ASN")
    ELSE IF InList(e.rdns_hostname, cfg.block_rdns_hostname.block_rdns_hostname)
        /\ ~InList(ip, cfg.exception_ip.exception_ip) /\ ~StrInModel(path, cfg.exception_path)
    THEN block_response_logger(cfg, cfg.response.all, "RDNS hostname")
    ELSE IF ~cfg.allow_hosting.allow_hosting /\ e.is_hosting
        /\ ~InList(ip, cfg.exception_ip.exception_ip) /\ ~StrInModel(path, cfg.exception_path)
    THEN block_response_logger(cfg, cfg.response.all, "hosting")
    ELSE IF ~cfg.allow_proxy.allow_proxy /\ e.is_proxy
        /\ ~InList(ip, cfg.exception_ip.exception_ip) /\ ~StrInModel(path, cfg.exception_path)
    THEN block_response_logger(cfg, cfg.response.all, "proxy")
    ELSE ForwardOut

\* main.py lines 217-241
FreshRules(cfg, ip, path, e) ==
    IF cfg.block_bad_ip.block_inbound_bad_ip /\ InList(ip, inbound_bad_ip_list)
        /\ ~InList(ip, cfg.exception_ip.exception_ip) /\ ~StrInModel(path, cfg.exception_path)
    THEN block_response_logger(cfg, cfg.response.bad_ip, "inbound bad IP")
    ELSE IF cfg.block_bad_ip.block_outbound_bad_ip /\ InList(ip, outbound_bad_ip_list)
        /\ ~InList(ip, cfg.exception_ip.exception_ip) /\ ~StrInModel(path, cfg.exception_path)
    THEN block_response_logger(cfg, cfg.response.bad_ip, "outbound bad IP")
    ELSE IF InList(e.continent, cfg.block_continent.block_continent)
        /\ ~InList(ip, cfg.exception_ip.exception_ip) /\ ~StrInModel(path, cfg.exception_path)
    THEN block_response_logger(cfg, cfg.response.continent, "continent")
    ELSE IF InList(e.country, cfg.block_country.block_country)
        /\ ~InList(ip, cfg.exception_ip.exception_ip) /\ ~StrInModel(path, cfg.exception_path)
    THEN block_response_logger(cfg, cfg.response.country, "country")
    ELSE IF AsnInList(e.asn, cfg.block_asn.block_asn)
        /\ ~InList(ip, cfg.exception_ip.exception_ip) /\ ~StrInModel(path, cfg.exception_path)
    THEN block_response_logger(cfg, cfg.response.asn, "ASN")
    ELSE IF InList(e.rdns_hostname, cfg.block_rdns_hostname.block_rdns_hostname)
        /\ ~InList(ip, cfg.exception_ip.exception_ip) /\ ~StrInModel(path, cfg.exception_path)
    THEN block_response_logger(cfg, cfg.response.rdns_hostname, "RDNS hostname")
    ELSE IF ~cfg.allow_hosting.allow_hosting /\ e.is_hosting
        /\ ~InList(ip, cfg.exception_ip.exception_ip) /\ ~StrInModel(path, cfg.exception_path)
    THEN block_response_logger(cfg, cfg.response.hosting, "hosting")
    ELSE IF ~cfg.allow_proxy.allow_proxy /\ e.is_proxy
        /\ ~InList(ip, cfg.exception_ip.exception_ip) /\ ~StrInModel(path, cfg.exception_path)
    THEN block_response_logger(cfg, cfg.response.proxy, "proxy")
    ELSE ForwardOut

\* A faulty CachedRulesAll: the country condition is tested before the continent
\* condition.  C15 fails on it.
CachedRulesAll_CountryFirst(cfg, ip, path, e) ==
    IF cfg.block_bad_ip.block_inbound_bad_ip /\ InList(ip, inbound_bad_ip_list)
        /\ ~InList(ip, cfg.exception_ip.exception_ip) /\ ~StrInModel(path, cfg.exception_path)
    THEN block_response_logger(cfg, cfg.response.all, "inbound bad IP")
    ELSE IF cfg.block_bad_ip.block_outbound_bad_ip /\ InList(ip, outbound_bad_ip_list)
        /\ ~InList(ip, cfg.exception_ip.exception_ip) /\ ~StrInModel(path, cfg.exception_path)
    THEN block_response_logger(cfg, cfg.response.all, "outbound bad IP")
    ELSE IF InList(e.country, cfg.block_country.block_country)
        /\ ~InList(ip, cfg.exception_ip.exception_ip) /\ ~StrInModel(path, cfg.exception_path)
    THEN block_response_logger(cfg, cfg.response.all, "country")
    ELSE IF InList(e.continent, cfg.block_continent.block_continent)
        /\ ~InList(ip, cfg.exception_ip.exception_ip) /\ ~StrInModel(path, cfg.exception_path)
    THEN block_response_logger(cfg, cfg.response.all, "continent")
    ELSE IF AsnInList(e.asn, cfg.block_asn.block_asn)
        /\ ~InList(ip, cfg.exception_ip.exception_ip) /\ ~StrInModel(path, cfg.exception_path)
    THEN block_response_logger(cfg, cfg.response.all, "ASN")
    ELSE IF InList(e.rdns_hostname, cfg.block_rdns_hostname.block_rdns_hostname)
        /\ ~InList(ip, cfg.exception_ip.exception_ip) /\ ~StrInModel(path, cfg.exception_path)
    THEN block_response_logger(cfg, cfg.response.all, "RDNS hostname")
    ELSE IF ~cfg.allow_hosting.allow_hosting /\ e.is_hosting
        /\ ~InList(ip, cfg.exception_ip.exception_ip) /\ ~StrInModel(path, cfg.exception_path)
    THEN block_response_logger(cfg, cfg.response.all, "hosting")
    ELSE IF ~cfg.allow_proxy.allow_proxy /\ e.is_proxy
        /\ ~InList(ip, cfg.exception_ip.exception_ip) /\ ~StrInModel(path, cfg.exception_path)
    THEN block_response_logger(cfg, cfg.response.all, "proxy")
    ELSE ForwardOut

\* main.py lines 267-287
CachedRulesAll(cfg, ip, path, e) ==
    IF cfg.block_bad_ip.block_inbound_bad_ip /\ InList(ip, inbound_bad_ip_list)
        /\ ~InList(ip, cfg.exception_ip.exception_ip) /\ ~StrInModel(path, cfg.exception_path)
    THEN block_response_logger(cfg, cfg.response.all, "inbound bad IP")
    ELSE IF cfg.block_bad_ip.block_outbound_bad_ip /\ InList(ip, outbound_bad_ip_list)
        /\ ~InList(ip, cfg.exception_ip.exception_ip) /\ ~StrInModel(path, cfg.exception_path)
    THEN block_response_logger(cfg, cfg.response.all, "outbound bad IP")
    ELSE IF InList(e.continent, cfg.block_continent.block_continent)
        /\ ~InList(ip, cfg.exception_ip.exception_ip) /\ ~StrInModel(path, cfg.exception_path)
    THEN block_response_logger(cfg, cfg.response.all, "continent")
    ELSE IF InList(e.country, cfg.block_country.block_country)
        /\ ~InList(ip, cfg.exception_ip.exception_ip) /\ ~StrInModel(path, cfg.exception_path)
    THEN block_response_logger(cfg, cfg.response.all, "country")
    ELSE IF AsnInList(e.asn, cfg.block_asn.block_asn)
        /\ ~InList(ip, cfg.exception_ip.exception_ip) /\ ~StrInModel(path, cfg.exception_path)
    THEN block_response_logger(cfg, cfg.response.all, "ASN")
    ELSE IF InList(e.rdns_hostname, cfg.block_rdns_hostname.block_rdns_hostname)
        /\ ~InList(ip, cfg.exception_ip.exception_ip) /\ ~StrInModel(path, cfg.exception_path)
    THEN block_response_logger(cfg, cfg.response.all, "RDNS hostname")
    ELSE IF ~cfg.allow_hosting.allow_hosting /\ e.is_hosting
        /\ ~InList(ip, cfg.exception_ip.exception_ip) /\ ~StrInModel(path, cfg.exception_path)
    THEN block_response_logger(cfg, cfg.response.all, "hosting")
    ELSE IF ~cfg.allow_proxy.allow_proxy /\ e.is_proxy
        /\ ~InList(ip, cfg.exception_ip.exception_ip) /\ ~StrInModel(path, cfg.exception_path)
    THEN block_response_logger(cfg, cfg.response.all, "proxy")
    ELSE ForwardOut

\* A faulty CachedRules: the proxy condition tests the exception_ip section object
\* instead of its list, as the conditions do for exception_path.  C3 fails on it.
CachedRules_SectionMembership(cfg, ip, path, e) ==
    IF cfg.block_bad_ip.block_inbound_bad_ip /\ InList(ip, inbound_bad_ip_list)
        /\ ~InList(ip, cfg.exception_ip.exception_ip) /\ ~StrInModel(path, cfg.exception_path)
    THEN block_response_logger(cfg, cfg.response.bad_ip, "inbound bad IP")
    ELSE IF cfg.block_bad_ip.block_outbound_bad_ip /\ InList(ip, outbound_bad_ip_list)
        /\ ~InList(ip, cfg.exception_ip.exception_ip) /\ ~StrInModel(path, cfg.exception_path)
    THEN block_response_logger(cfg, cfg.response.bad_ip, "outbound bad IP")
    ELSE IF InList(e.continent, cfg.block_continent.block_continent)
        /\ ~InList(ip, cfg.exception_ip.exception_ip) /\ ~StrInModel(path, cfg.exception_path)
    THEN block_response_logger(cfg, cfg.response.continent, "continent")
    ELSE IF InList(e.country, cfg.block_country.block_country)
        /\ ~InList(ip, cfg.exception_ip.exception_ip) /\ ~StrInModel(path, cfg.exception_path)
    THEN block_response_logger(cfg, cfg.response.country, "country")
    ELSE IF AsnInList(e.asn, cfg.block_asn.block_asn)
        /\ ~InList(ip, cfg.exception_ip.exception_ip) /\ ~StrInModel(path, cfg.exception_path)
    THEN block_response_logger(cfg, cfg.response.asn, "ASN")
    ELSE IF InList(e.rdns_hostname, cfg.block_rdns_hostname.block_rdns_hostname)
        /\ ~InList(ip, cfg.exception_ip.exception_ip) /\ ~StrInModel(path, cfg.exception_path)
    THEN block_response_logger(cfg, cfg.response.rdns_hostname, "RDNS hostname")
    ELSE IF ~cfg.allow_hosting.allow_hosting /\ e.is_hosting
        /\ ~InList(ip, cfg.exception_ip.exception_ip) /\ ~StrInModel(path, cfg.exception_path)
    THEN block_response_logger(cfg, cfg.response.hosting, "hosting")
    ELSE IF ~cfg.allow_proxy.allow_proxy /\ e.is_proxy
        /\ ~StrInModel(ip, cfg.exception_ip) /\ ~StrInModel(path, cfg.exception_path)
    THEN block_response_logger(cfg, cfg.response.proxy, "proxy")
    ELSE ForwardOut

\* main.py lines 289-313
CachedRules(cfg, ip, path, e) ==
    IF cfg.block_bad_ip.block_inbound_bad_ip /\ InList(ip, inbound_bad_ip_list)
        /\ ~InList(ip, cfg.exception_ip.exception_ip) /\ ~StrInModel(path, cfg.exception_path)
    THEN block_response_logger(cfg, cfg.response.bad_ip, "inbound bad IP")
    ELSE IF cfg.block_bad_ip.block_outbound_bad_ip /\ InList(ip, outbound_bad_ip_list)
        /\ ~InList(ip, cfg.exception_ip.exception_ip) /\ ~StrInModel(path, cfg.exception_path)
    THEN block_response_logger(cfg, cfg.response.bad_ip, "outbound bad IP")
    ELSE IF InList(e.continent, cfg.block_continent.block_continent)
        /\ ~InList(ip, cfg.exception_ip.exception_ip) /\ ~StrInModel(path, cfg.exception_path)
    THEN block_response_logger(cfg, cfg.response.continent, "continent")
    ELSE IF InList(e.country, cfg.block_country.block_country)
        /\ ~InList(ip, cfg.exception_ip.exception_ip) /\ ~StrInModel(path, cfg.exception_path)
    THEN block_response_logger(cfg, cfg.response.country, "country")
    ELSE IF AsnInList(e.asn, cfg.block_asn.block_asn)
        /\ ~InList(ip, cfg.exception_ip.exception_ip) /\ ~StrInModel(path, cfg.exception_path)
    THEN block_response_logger(cfg, cfg.response.asn, "ASN")
    ELSE IF InList(e.rdns_hostname, cfg.block_rdns_hostname.block_rdns_hostname)
        /\ ~InList(ip, cfg.exception_ip.exception_ip) /\ ~StrInModel(path, cfg.exception_path)
    THEN block_response_logger(cfg, cfg.response.rdns_hostname, "RDNS hostname")
    ELSE IF ~cfg.allow_hosting.allow_hosting /\ e.is_hosting
        /\ ~InList(ip, cfg.exception_ip.exception_ip) /\ ~StrInModel(path, cfg.exception_path)
    THEN block_response_logger(cfg, cfg.response.hosting, "hosting")
    ELSE IF ~cfg.allow_proxy.allow_proxy /\ e.is_proxy
        /\ ~InList(ip, cfg.exception_ip.exception_ip) /\ ~StrInModel(path, cfg.exception_path)
    THEN block_response_logger(cfg, cfg.response.proxy, "proxy")
    ELSE ForwardOut

(***************************************************************************)
(* __call__, from its entry to the await of the lookup.                    *)
(***************************************************************************)
\* A faulty is_successful_cache: every record counts as successful.  C21 fails on it.
is_successful_cache_Always(entry) == TRUE

\* main.py line 111
is_successful_cache(entry) == entry.data.status_code = 200

\* A faulty NeedsLookup: the guards that make a lifetime of 0 mean "never refresh" are
\* missing.  C9 fails on it.
NeedsLookup_NoZeroGuard(cfg, c, ip, t) ==
    LET cache_entry == c[ip]
        in_cache == cache_entry # None
    IN  \/ ~in_cache
        \/ /\ in_cache
           /\ is_successful_cache(cache_entry)
           /\ t >= cache_entry.last_updated + cfg.cache.invalidate_success_after
        \/ /\ in_cache
           /\ ~is_successful_cache(cache_entry)
           /\ t >= cache_entry.last_updated + cfg.cache.invalidate_error_after

\* A faulty NeedsLookup: a record is still served at the instant its lifetime ends.
\* C19 fails on it.
NeedsLookup_StrictlyAfter(cfg, c, ip, t) ==
    LET cache_entry == c[ip]
        in_cache == cache_entry # None
        success_after == cfg.cache.invalidate_success_after
        error_after == cfg.cache.invalidate_error_after
    IN  \/ ~in_cache
        \/ /\ in_cache
           /\ is_successful_cache(cache_entry)
           /\ t > cache_entry.last_updated + success_after
           /\ success_after # 0
        \/ /\ in_cache
           /\ ~is_successful_cache(cache_entry)
           /\ t > cache_entry.last_updated + error_after
           /\ error_after # 0

\* main.py line 115: the condition under which the lookup branch is entered
NeedsLookup(cfg, c, ip, t) ==
    LET cache_entry == c[ip]
        in_cache == cache_entry # None
        success_after == cfg.cache.invalidate_success_after
        error_after == cfg.cache.invalidate_error_after
    IN  \/ ~in_cache
        \/ /\ in_cache
           /\ is_successful_cache(cache_entry)
           /\ t >= cache_entry.last_updated + success_after
           /\ success_after # 0
        \/ /\ in_cache
           /\ ~is_successful_cache(cache_entry)
           /\ t >= cache_entry.last_updated + error_after
           /\ error_after # 0

\* main.py line 116
rate_limited(t, rst) == IF t >= rst THEN FALSE ELSE TRUE

EnrichmentKeys == {"continentCode", "countryCode", "as", "reverse", "hosting", "proxy"}

\* A faulty ReadEntry: the record is gone by the time it is read, as if another call
\* had evicted it after the freshness check.  C26 fails on it.
ReadEntry_Evicted(c, ip) == None

\* main.py line 244: cache = self.cache[ip], None standing for the KeyError of a
\* missing key
ReadEntry(c, ip) == c[ip]

\* main.py lines 244-313: the decision on the cached record
CachedPath(cfg, c, ip, path) ==
    LET entry == ReadEntry(c, ip)
        r == entry.data.response
    IN  IF entry = None
        THEN Raise("KeyError")
        ELSE IF r = None
        THEN Raise("TypeError")
        ELSE IF ~(EnrichmentKeys \subseteq DOMAIN r)
        THEN Raise("KeyError")
        ELSE IF entry.data.status_code # 200 \/ r.status # "success"
        THEN Send(ServiceUnavailable)
        ELSE IF cfg.response.all # None
        THEN CachedRulesAll(cfg, ip, path, CachedEnrichment(r))
        ELSE CachedRules(cfg, ip, path, CachedEnrichment(r))

Idle == [pc |-> "idle", client |-> "", ip |-> "", path |-> ""]

Event(step, p, client, ip, path, type, resp, out, lookup) ==
    [step |-> step, proc |-> p, client |-> client, ip |-> ip, path |-> path,
     type |-> type, resp |-> resp, out |-> out, lookup |-> lookup, evicted |-> {},
     replaced |-> None]

\* A faulty Passthrough: the scope type is not looked at.  C14 fails on it.
Passthrough_ConfigOnly(type, cfg) == cfg = None

\* main.py line 49
Passthrough(type, cfg) == type # "http" \/ cfg = None

\* main.py lines 47-134
Request(p, client, path, type) ==
    /\ req[p].pc = "idle"
    /\ UNCHANGED <<config, cache, reset, now>>
    /\ IF Passthrough(type, config)
       THEN /\ last' = Event("request", p, client, "", path, type, None, ForwardOut, FALSE)
            /\ UNCHANGED <<lru, req>>
       ELSE IF Malformed(client)
       THEN /\ last' = Event("request", p, client, "", path, type, None,
                             Raise("ValueError"), FALSE)
            /\ UNCHANGED <<lru, req>>
       ELSE LET ip == ip_address(client) IN
            IF StrInModel(ip, config.block_ip)
            THEN /\ last' = Event("request", p, client, ip, path, type, None,
                        Send(get_response_obj(IF config.response.all # None
                                              THEN config.response.all
                                              ELSE config.response.ip)), FALSE)
                 /\ UNCHANGED <<lru, req>>
            ELSE IF is_private(ip) \/ is_reserved(ip)
            THEN /\ last' = Event("request", p, client, ip, path, type, None,
                                  Send(ServiceUnavailable), FALSE)
                 /\ UNCHANGED <<lru, req>>
            ELSE /\ lru' = LRUGetOrder(cache, lru, ip)
                 /\ IF NeedsLookup(config, cache, ip, now)
                    THEN IF rate_limited(now, reset)
                         THEN /\ last' = Event("request", p, client, ip, path, type, None,
                                               Send(RateLimited(reset)), FALSE)
                              /\ UNCHANGED req
                         ELSE /\ last' = Event("request", p, client, ip, path, type, None,
                                               Out(<<>>, 0, NoError, ""), TRUE)
                              /\ req' = [req EXCEPT ![p] =
                                    [pc |-> "lookup", client |-> client, ip |-> ip,
                                     path |-> path]]
                    ELSE /\ last' = Event("request", p, client, ip, path, type, None,
                                          CachedPath(config, cache, ip, path), FALSE)
                         /\ UNCHANGED req

(***************************************************************************)
(* __call__, from the answer of the lookup to its return.                  *)
(***************************************************************************)
\* time.time() + response.headers["X-Ttl"]: the header value is a str, and
\* float + str raises TypeError
float_plus_str(t, s) == [ok |-> FALSE, value |-> 0]

\* main.py lines 179-241: the cache write and the decision on the fresh record
FreshPath(cfg, ip, path, j) ==
    IF cfg.response.all # None
    THEN FreshRulesAll(cfg, ip, path, FreshEnrichment(j))
    ELSE FreshRules(cfg, ip, path, FreshEnrichment(j))

\* A faulty reset_after: every 200 answer moves self.reset.  C24 fails on it.
reset_after_AnyAnswer(resp, t, rst) == t + 1

\* main.py lines 159-161: self.reset after the X-Rl test, when the sum did not raise
reset_after(resp, t, rst) ==
    IF resp.X_Rl = "0" THEN float_plus_str(t, resp.X_Ttl).value ELSE rst

\* main.py lines 134-241
LookupReturn(p, resp) ==
    /\ req[p].pc = "lookup"
    /\ req' = [req EXCEPT ![p] = Idle]
    /\ UNCHANGED <<config, now>>
    /\ LET ip == req[p].ip
           path == req[p].path
           done(out) == last' = Event("lookup_return", p, req[p].client, ip, path,
                                      "http", resp, out, FALSE)
           size == config.cache.size
           \* a return that assigned self.cache[ip]: the keys the assignment popped and
           \* the record it replaced
           wrote(out) == last' = [Event("lookup_return", p, req[p].client, ip, path,
                                        "http", resp, out, FALSE)
                                  EXCEPT !.evicted = Evicted(cache, lru, ip, size),
                                         !.replaced = cache[ip]]
       IN  IF resp.kind = "transport_error"
           THEN /\ done(Raise("ConnectError"))
                /\ UNCHANGED <<cache, lru, reset>>
           ELSE IF resp.status_code # 200
           THEN IF resp.content = "text"
                THEN /\ done(Raise("JSONDecodeError"))
                     /\ UNCHANGED <<cache, lru, reset>>
                ELSE /\ cache' = LRUSet(cache, lru, ip,
                            Entry(resp.status_code,
                                  IF resp.content # "empty" THEN resp.json ELSE None, now),
                            size)
                     /\ lru' = LRUSetOrder(cache, lru, ip, size)
                     /\ wrote(Send(ServiceUnavailable))
                     /\ UNCHANGED reset
           ELSE LET sum == float_plus_str(now, resp.X_Ttl) IN
                IF resp.X_Rl = "0" /\ ~sum.ok
                THEN /\ done(Raise("TypeError"))
                     /\ UNCHANGED <<cache, lru, reset>>
                ELSE /\ reset' = reset_after(resp, now, reset)
                     /\ IF resp.json.status # "success"
                        THEN /\ done(Send(ServiceUnavailable))
                             /\ UNCHANGED <<cache, lru>>
                        ELSE /\ cache' = LRUSet(cache, lru, ip,
                                                Entry(200, resp.json, now), size)
                             /\ lru' = LRUSetOrder(cache, lru, ip, size)
                             /\ wrote(FreshPath(config, ip, path, resp.json))

\* time passes
Tick ==
    /\ now < MaxTime
    /\ now' = now + 1
    /\ last' = Event("tick", "", "", "", "", "", None, Out(<<>>, 0, NoError, ""), FALSE)
    /\ UNCHANGED <<config, cache, lru, reset, req>>

(***************************************************************************)
(* The configurations, requests and upstream answers of the model.         *)
(***************************************************************************)
\* a config.toml that blocks on every category
RawConfig(exception_ip, exception_path, response, size, success_after, error_after) ==
    [block_ip |-> {"2606:4700:0:0:0:0:0:1111"},
     block_inbound_bad_ip |-> TRUE, block_outbound_bad_ip |-> TRUE,
     block_continent |-> {"as"}, block_country |-> {" cn"},
     block_asn |-> {15169}, block_rdns_hostname |-> {"Bad.Example.COM "},
     allow_hosting |-> FALSE, allow_proxy |-> FALSE,
     exception_ip |-> exception_ip, exception_path |-> exception_path,
     response |-> response,
     size |-> size, invalidate_success_after |-> success_after,
     invalidate_error_after |-> error_after,
     disable_logging |-> FALSE]

\* <<invalidate_success_after, invalidate_error_after>>
Lifetimes == {<<2, 1>>, <<0, 0>>}

CacheSizes == {1, 2}

Configs ==
    {config_(RawConfig({" 5.6.7.8"}, {" /health "}, response_(None), n, l[1], l[2])) :
        n \in CacheSizes, l \in Lifetimes}
    \cup {None}

Clients == {"1.2.3.4", "2606:4700:0:0:0:0:0:1111", "10.0.0.1", "240.0.0.1", "bogus"}

Paths == {"/data"}

ScopeTypes == {"http", "websocket"}

Clean == Payload("EU", "DE", "", "", FALSE, FALSE)

Listed == Payload("AS", "CN", "AS15169 Google LLC", "bad.example.com", TRUE, TRUE)

Responses ==
    {TransportError}
    \cup {HttpResponse(500, c, IF c = "json" THEN ErrorJson ELSE None, "", "") :
            c \in {"empty", "text", "json"}}
    \cup {HttpResponse(200, "json", j, rl, "2") :
            j \in {Clean, Listed, FailPayload}, rl \in {"0", "44"}}

InitWith(configs) ==
    /\ config \in configs
    /\ cache = [ip \in Addresses |-> None]
    /\ lru = <<>>
    /\ reset = 0
    /\ now = 0
    /\ req = [p \in Procs |-> Idle]
    /\ last = Event("init", "", "", "", "", "", None, Out(<<>>, 0, NoError, ""), FALSE)

Init == InitWith(Configs)

Next ==
    \/ \E p \in Procs, client \in Clients, path \in Paths, type \in ScopeTypes :
            Request(p, client, path, type)
    \/ \E p \in Procs, resp \in Responses : LookupReturn(p, resp)
    \/ Tick

Spec == Init /\ [][Next]_vars

(***************************************************************************)
(* The decision specification: one request at a time at a fixed instant,   *)
(* every enrichment payload, the exception lists and the response tables   *)
(* varied.                                                                 *)
(***************************************************************************)
DecisionExceptions == {<<{}, {}>>, <<{" 1.2.3.4 "}, {}>>, <<{}, {" /health "}>>}

ResponseTables == {response_(None), response_(AllSpec), response_custom(None)}

\* <<block_inbound_bad_ip, block_outbound_bad_ip>>
BadIpFlags == {<<TRUE, TRUE>>, <<FALSE, TRUE>>, <<FALSE, FALSE>>}

DecisionConfigs ==
    {config_([RawConfig(x[1], x[2], r, 1, 2, 1)
                EXCEPT !.block_inbound_bad_ip = f[1], !.block_outbound_bad_ip = f[2]]) :
        x \in DecisionExceptions, r \in ResponseTables, f \in BadIpFlags}

DecisionClients == {"1.2.3.4", "5.6.7.8", "2606:4700:0:0:0:0:0:1111"}

DecisionPaths == {"/health", "/data"}

DecisionPayloads ==
    {Payload(continent, country, asname, reverse, hosting, proxy) :
        continent \in {"AS", "EU"}, country \in {"CN", "DE"},
        asname \in {"", "AS15169 Google LLC", "AS13335 Cloudflare, Inc."}, reverse \in {"", "bad.example.com"},
        hosting \in BOOLEAN, proxy \in BOOLEAN}

DecisionResponses == {HttpResponse(200, "json", j, "44", "2") : j \in DecisionPayloads}

DecisionInit == InitWith(DecisionConfigs)

DecisionNext ==
    \/ \E client \in DecisionClients, path \in DecisionPaths :
            Request("r1", client, path, "http")
    \/ \E resp \in DecisionResponses : LookupReturn("r1", resp)

DecisionSpec == DecisionInit /\ [][DecisionNext]_vars

(***************************************************************************)
(* The cache specification: concurrent requests of three public clients at *)
(* a fixed instant against a cache of one or two entries.                  *)
(***************************************************************************)
LruConfigs ==
    {config_(RawConfig({}, {}, response_(None), n, 2, 1)) : n \in CacheSizes}

LruClients == {"1.2.3.4", "5.6.7.8", "2606:4700:0:0:0:0:0:1111"}

LruResponses ==
    {HttpResponse(200, "json", Clean, "44", "2"), HttpResponse(500, "empty", None, "", "")}

LruInit == InitWith(LruConfigs)

LruNext ==
    \/ \E p \in Procs, client \in LruClients : Request(p, client, "/data", "http")
    \/ \E p \in Procs, resp \in LruResponses : LookupReturn(p, resp)

LruSpec == LruInit /\ [][LruNext]_vars

(***************************************************************************)
(* Properties.  `last` is the step just taken; a Request step changes      *)
(* neither the cache contents nor the clock, so the entry it found is the  *)
(* entry the state still holds.                                            *)
(***************************************************************************)
\* the step just taken is the entry of __call__ for an http request of a public client
PublicRequest ==
    /\ config # None
    /\ last.step = "request"
    /\ last.type = "http"
    /\ last.ip \in PublicIPs

\* the step just taken is the return of a lookup with an HTTP answer of this status
LookupAnswered(status_code) ==
    /\ last.step = "lookup_return"
    /\ last.resp.kind = "http"
    /\ last.resp.status_code = status_code

\* the step just taken ran the block conditions on a record it had just fetched
FreshDecision ==
    /\ LookupAnswered(200)
    /\ last.resp.X_Rl # "0"
    /\ last.resp.json.status = "success"

\* the step just taken found a fresh successful record in the cache
CachedDecision ==
    /\ PublicRequest
    /\ cache[last.ip] # None
    /\ cache[last.ip].data.status_code = 200
    /\ cache[last.ip].data.response.status = "success"
    /\ \/ config.cache.invalidate_success_after = 0
       \/ now < cache[last.ip].last_updated + config.cache.invalidate_success_after

\* the configured denial of a raw IP block
IpBlockResponse ==
    get_response_obj(IF config.response.all # None THEN config.response.all
                     ELSE config.response.ip)

\* int(s) of an X-Ttl header
TtlSeconds(s) == CASE s = "2" -> 2 [] s = "1" -> 1 [] OTHER -> 0

\* C1: a request from an IP listed in block_ip gets the response.ip (or response.all)
\* denial, with no upstream lookup and no call of the downstream app.
C1_BlockedIpIsDenied ==
    (PublicRequest /\ last.ip \in config.block_ip.block_ip)
        => /\ last.out = Send(IpBlockResponse)
           /\ ~last.lookup
           /\ req[last.proc].pc = "idle"

\* C2: when the request path is one of the exception_path entries, no block condition
\* denies, after a fresh lookup or on a cached record: the request is forwarded.
C2_ExceptionPathForwards ==
    ((FreshDecision \/ CachedDecision)
        /\ last.path \in config.exception_path.exception_path)
        => last.out = ForwardOut

\* C3: when the canonical client IP is in exception_ip, no block condition denies, after
\* a fresh lookup or on a cached record, whatever the record says: the request is forwarded.
C3_ExceptionIpForwards ==
    ((FreshDecision \/ CachedDecision)
        /\ last.ip \in config.exception_ip.exception_ip)
        => last.out = ForwardOut

\* C3 witness: an excepted client in both bad-IP lists, whose cached record matches every
\* other block condition, was forwarded on the cached record.
C3_Witness ==
    /\ CachedDecision
    /\ last.ip \in config.exception_ip.exception_ip
    /\ last.ip \in inbound_bad_ip_list \cap outbound_bad_ip_list
    /\ cache[last.ip].data.response = Listed
    /\ config.response.all = None
    /\ last.out = ForwardOut

\* C4: after a lookup answered 200 with X-Rl 0 and X-Ttl t at time T, reset is T + t.
C4_ResetAfterExhaustion ==
    (LookupAnswered(200) /\ last.resp.X_Rl = "0")
        => reset = now + TtlSeconds(last.resp.X_Ttl)

\* C5: a lookup answered 200 with payload status "fail" gives the client a 503 and leaves
\* a cache entry with status_code 200 and that payload for the IP.
C5_FailPayloadCached ==
    (LookupAnswered(200) /\ last.resp.X_Rl # "0" /\ last.resp.json.status = "fail")
        => /\ last.out = Send(ServiceUnavailable)
           /\ cache[last.ip] = Entry(200, last.resp.json, now)

\* C6: a request whose IP has a fresh errored cache entry issues no lookup and ends
\* with a 503 sent to the client.
C6_FreshErroredEntryServes503 ==
    (/\ PublicRequest
     /\ cache[last.ip] # None
     /\ cache[last.ip].data.status_code # 200
     /\ now < cache[last.ip].last_updated + config.cache.invalidate_error_after)
        => /\ ~last.lookup
           /\ last.out = Send(ServiceUnavailable)

\* C7: a lookup answered with a non-200 status gives the request a 503, writes an errored
\* record with that status and last_updated = now, leaves reset alone and does not call
\* the downstream app.
C7_Non200CachedAnd503 ==
    (last.step = "lookup_return" /\ last.resp.kind = "http" /\ last.resp.status_code # 200)
        => /\ last.out = Send(ServiceUnavailable)
           /\ cache[last.ip] # None
           /\ cache[last.ip].data.status_code = last.resp.status_code
           /\ cache[last.ip].last_updated = now
           /\ reset = 0

\* C8: a lookup that failed in transport gives the request a 503 and caches an errored
\* record without payload for the IP.
C8_TransportFailureCachedAnd503 ==
    (last.step = "lookup_return" /\ last.resp.kind = "transport_error")
        => /\ last.out = Send(ServiceUnavailable)
           /\ cache[last.ip] # None
           /\ cache[last.ip].data.status_code # 200
           /\ cache[last.ip].data.response = None
           /\ cache[last.ip].last_updated = now

\* C9: a request whose IP has a fresh successful cache entry (status_code 200, and
\* invalidate_success_after 0 or not yet elapsed) issues no upstream lookup.
C9_FreshSuccessNoLookup ==
    (/\ PublicRequest
     /\ cache[last.ip] # None
     /\ cache[last.ip].data.status_code = 200
     /\ \/ config.cache.invalidate_success_after = 0
        \/ now < cache[last.ip].last_updated + config.cache.invalidate_success_after)
        => /\ ~last.lookup
           /\ req[last.proc].pc = "idle"

\* C9 witness: a request was denied on a record cached at an earlier instant.
C9_Witness ==
    /\ CachedDecision
    /\ cache[last.ip].last_updated < now
    /\ last.out.log = "inbound bad IP"

\* the keys the cache holds
Cached == {k \in Addresses : cache[k] # None}

\* C11: in every reachable state the cache holds at most cache.size entries.
C11_CacheBounded ==
    config # None => Cardinality(Cached) <= config.cache.size

\* C11 witness: a write to a full cache of two entries popped a key and the cache is
\* full again, while another request is still waiting for its lookup.
C11_Witness ==
    /\ config # None
    /\ config.cache.size = 2
    /\ Cardinality(Cached) = 2
    /\ last.evicted # {}
    /\ \E p \in Procs : req[p].pc = "lookup"

\* a comes before b in a recency order
Before(order, a, b) ==
    \E i, j \in 1..Len(order) : i < j /\ order[i] = a /\ order[j] = b

\* key is the most recently used of the order, and the other keys kept their order
MovedToEnd(old, new, key) ==
    /\ Len(new) > 0
    /\ new[Len(new)] = key
    /\ \A a, b \in {new[i] : i \in 1..Len(new)} \ {key} :
            Before(new, a, b) <=> Before(old, a, b)

\* C12: a cache write for a new IP into a full cache evicts exactly one entry, the least
\* recently used one, where a request's cache lookup of a cached IP and a write of an IP
\* each make that IP the most recently used.
C12_EvictsLeastRecentlyUsed ==
    [][ /\ \A k \in Addresses :
            (cache[k] = None /\ cache'[k] # None
                /\ Cardinality(Cached) = config.cache.size)
                => \E v \in Cached :
                        /\ {x \in Addresses : cache'[x] # None} = (Cached \ {v}) \cup {k}
                        /\ \A u \in Cached \ {v} : Before(lru, v, u)
        /\ \A k \in Addresses :
            (cache'[k] # cache[k] /\ cache'[k] # None) => MovedToEnd(lru, lru', k)
        /\ (last'.step = "request" /\ last'.type = "http" /\ last'.ip \in Cached)
                => MovedToEnd(lru, lru', last'.ip)
        /\ {lru'[i] : i \in 1..Len(lru')} = {x \in Addresses : cache'[x] # None}
        /\ Len(lru') = Cardinality({x \in Addresses : cache'[x] # None})
      ]_vars

\* C12 witness: a write of a new key to a full cache of two entries popped exactly one
\* key and left the other one as the least recently used.
C12_Witness ==
    /\ config # None
    /\ config.cache.size = 2
    /\ Cardinality(last.evicted) = 1
    /\ Len(lru) = 2
    /\ lru[2] = last.ip
    /\ lru[1] \notin last.evicted

\* the non-public addresses among the clients

\* C13: a request from a private or reserved client IP gets the 503 JSON response, issues
\* no upstream lookup, leaves the cache contents, the recency order and reset unchanged
\* and does not call the downstream app.
C13_NonPublicIpFrame ==
    [][ (config # None /\ last'.step = "request" /\ last'.type = "http"
            /\ last'.ip \in NonPublicIPs /\ last'.ip \notin config.block_ip.block_ip)
            => /\ last'.out = Send(ServiceUnavailable)
               /\ ~last'.lookup
               /\ req' = req
               /\ cache' = cache
               /\ lru' = lru
               /\ reset' = reset
      ]_vars

\* C13 witness: a reserved client got the 503 while the cache held an entry and another
\* request was waiting for its lookup.
C13_Witness ==
    /\ config # None
    /\ last.step = "request"
    /\ last.type = "http"
    /\ last.ip = "240.0.0.1"
    /\ last.out = Send(ServiceUnavailable)
    /\ Cached # {}
    /\ \E p \in Procs : req[p].pc = "lookup"

\* C14: a request whose scope type is not "http", or any request when there is no config,
\* is handed to the downstream app once; the middleware sends nothing, issues no lookup
\* and changes neither the cache nor reset.
C14_PassthroughFrame ==
    [][ (last'.step = "request" /\ (last'.type # "http" \/ config = None))
            => /\ last'.out = ForwardOut
               /\ ~last'.lookup
               /\ req' = req
               /\ cache' = cache
               /\ lru' = lru
               /\ reset' = reset
      ]_vars

\* C14 witness: a websocket scope of a client whose record is cached was forwarded.
C14_Witness ==
    /\ config # None
    /\ last.step = "request"
    /\ last.type = "websocket"
    /\ ip_address(last.client) \in Cached
    /\ last.out = ForwardOut

\* C14 witness, the other case: an http request was forwarded because there is no config.
C14_NoConfigForwarded ==
    /\ config = None
    /\ last.step = "request"
    /\ last.type = "http"
    /\ last.out = ForwardOut

\* the step just taken ran the block conditions, after a lookup or on a cached record
DecisionMade == FreshDecision \/ CachedDecision

\* the ip-api.com document the block conditions of the step just taken were run on
DecidedRecord ==
    IF last.step = "lookup_return" THEN last.resp.json ELSE cache[last.ip].data.response

\* neither the client address nor the path of the step just taken is listed as an exception
NoExceptionApplies ==
    /\ last.ip \notin config.exception_ip.exception_ip
    /\ last.path \notin config.exception_path.exception_path

RuleOrder ==
    <<"inbound bad IP", "outbound bad IP", "continent", "country", "ASN", "RDNS hostname",
      "hosting", "proxy">>

\* the positions in RuleOrder of the rules that match address ip with document j
MatchingRules(cfg, ip, j) ==
    {i \in 1..Len(RuleOrder) :
        CASE i = 1 -> cfg.block_bad_ip.block_inbound_bad_ip /\ ip \in inbound_bad_ip_list
          [] i = 2 -> cfg.block_bad_ip.block_outbound_bad_ip /\ ip \in outbound_bad_ip_list
          [] i = 3 -> j.continentCode \in cfg.block_continent.block_continent
          [] i = 4 -> j.countryCode \in cfg.block_country.block_country
          [] i = 5 -> j.as # "" /\ AsnOf(j.as) \in cfg.block_asn.block_asn
          [] i = 6 -> j.reverse \in cfg.block_rdns_hostname.block_rdns_hostname
          [] i = 7 -> ~cfg.allow_hosting.allow_hosting /\ j.hosting
          [] i = 8 -> ~cfg.allow_proxy.allow_proxy /\ j.proxy}

\* the category of the first matching rule, "" when no rule matches
FirstMatch(cfg, ip, j) ==
    LET m == MatchingRules(cfg, ip, j)
    IN  IF m = {} THEN ""
        ELSE RuleOrder[CHOOSE i \in m : \A k \in m : i <= k]

\* C15: when no exception applies, a decision denies with the category of the first
\* matching rule in the order inbound bad IP, outbound bad IP, continent, country, ASN,
\* RDNS hostname, hosting, proxy, and forwards iff no rule matches; a bad-IP rule matches
\* only with its flag enabled and the address in its list.
C15_FirstMatchWins ==
    (DecisionMade /\ NoExceptionApplies)
        => /\ last.out.log = FirstMatch(config, last.ip, DecidedRecord)
           /\ last.out.app = 1 <=> MatchingRules(config, last.ip, DecidedRecord) = {}
           /\ last.out.app = 1 => last.out = ForwardOut
           /\ last.out.app = 0 => Len(last.out.sent) = 2

\* C15 witness: a cached record on which the country, hosting and proxy rules match and
\* the inbound rule is switched off for a listed address: denied as outbound bad IP.
C15_Witness ==
    /\ CachedDecision
    /\ NoExceptionApplies
    /\ last.ip = "1.2.3.4"
    /\ ~config.block_bad_ip.block_inbound_bad_ip
    /\ {4, 7, 8} \subseteq MatchingRules(config, last.ip, DecidedRecord)
    /\ last.out.log = "outbound bad IP"

\* C15 witness: several rules match and the first of them is the country rule.
C15_SeveralMatchCountryFirst ==
    /\ DecisionMade
    /\ NoExceptionApplies
    /\ MatchingRules(config, last.ip, DecidedRecord) = {4, 5, 8}
    /\ last.out.log = "country"

\* C15 witness: no rule matches and the request is forwarded.
C15_NoMatchForwarded ==
    /\ DecisionMade
    /\ NoExceptionApplies
    /\ MatchingRules(config, last.ip, DecidedRecord) = {}
    /\ last.out = ForwardOut

\* the [response.<category>] table of a denial category
CategorySpec(response, category) ==
    CASE category \in {"inbound bad IP", "outbound bad IP"} -> response.bad_ip
      [] category = "continent"     -> response.continent
      [] category = "country"       -> response.country
      [] category = "ASN"           -> response.asn
      [] category = "RDNS hostname" -> response.rdns_hostname
      [] category = "hosting"       -> response.hosting
      [] category = "proxy"         -> response.proxy

\* C16: every denial sends response.all when it is configured, whatever the category;
\* otherwise it sends the table of its own category, inbound and outbound bad IP both
\* sending the bad_ip table.
C16_ResponseSelection ==
    (DecisionMade /\ last.out.app = 0)
        => last.out.sent =
             get_response_obj(IF config.response.all # None THEN config.response.all
                              ELSE CategorySpec(config.response, last.out.log))

\* C16 witness: with per-category tables that all differ, an outbound bad IP denial on
\* a cached record sent the bad_ip table.
C16_Witness ==
    /\ CachedDecision
    /\ config.response = response_custom(None)
    /\ last.out.log = "outbound bad IP"
    /\ last.out.sent = get_response_obj(config.response.bad_ip)
    /\ last.out.sent # get_response_obj(Forbidden)

\* C16 witness: with response.all configured, a hosting denial after a lookup sent it.
C16_AllOverridesCategory ==
    /\ FreshDecision
    /\ config.response.all = AllSpec
    /\ last.out.log = "hosting"
    /\ last.out.sent = get_response_obj(AllSpec)

\* C17: a request that follows, with the same address and path, the request that fetched
\* a successful record, and finds that record fresh in the cache, gets the outcome the
\* first one got: same forward or denial, same category, same events sent.
C17_FreshEqualsCached ==
    [][ (FreshDecision /\ CachedDecision' /\ last'.ip = last.ip /\ last'.path = last.path)
            => /\ last'.out = last.out
               /\ ~last'.lookup
      ]_vars

\* C17 witness: the second request of 5.6.7.8, whose record says hosting, is denied with
\* the 403 of the hosting rule from the record fetched at this instant.
C17_Witness ==
    /\ CachedDecision
    /\ last.ip = "5.6.7.8"
    /\ cache[last.ip].last_updated = now
    /\ cache[last.ip].data.response.hosting
    /\ last.out.log = "hosting"
    /\ last.out.sent = get_response_obj(Forbidden)

\* the step just taken ended a call of __call__
Completed == last.step \in {"request", "lookup_return"} /\ ~last.lookup

\* C18: every call of __call__ ends either with the downstream app called once and
\* nothing sent, or with exactly one http.response.start then one http.response.body
\* sent and the app never called.
C18_CompletesOneOfTwoWays ==
    Completed
        => \/ last.out = ForwardOut
           \/ /\ last.out.app = 0
              /\ last.out.raised = NoError
              /\ Len(last.out.sent) = 2
              /\ last.out.sent[1].type = "http.response.start"
              /\ last.out.sent[2].type = "http.response.body"

\* C18 holds of every call that ends without an exception.
C18_UnlessRaised ==
    (Completed /\ last.out.raised = NoError)
        => \/ last.out = ForwardOut
           \/ /\ last.out.app = 0
              /\ Len(last.out.sent) = 2
              /\ last.out.sent[1].type = "http.response.start"
              /\ last.out.sent[2].type = "http.response.body"

\* the step just taken fetched a record with status_code 200 and payload status "success"
FetchedSuccess == LookupAnswered(200) /\ last.resp.json.status = "success"

\* the step just taken ended on one of the error paths of an http request
ErrorPath ==
    /\ config # None
    /\ last.type = "http"
    /\ \/ last.step = "request" /\ last.ip \in NonPublicIPs
       \/ last.step = "request" /\ last.out.sent = RateLimited(reset)
       \/ last.step = "lookup_return" /\ ~LookupAnswered(200)
       \/ LookupAnswered(200) /\ last.resp.json.status # "success"
       \/ /\ PublicRequest
          /\ ~last.lookup
          /\ cache[last.ip] # None
          /\ \/ cache[last.ip].data.status_code # 200
             \/ cache[last.ip].data.response.status # "success"

\* C19: with a config present, an http request reaches the downstream app only on a
\* decision made on a record of its address with status_code 200 and payload status
\* "success", just fetched or fresh in the cache; no error path calls the app.
C19_AppOnlyOnSuccessRecord ==
    /\ (config # None /\ last.type = "http" /\ last.out.app > 0)
            => FetchedSuccess \/ CachedDecision
    /\ ErrorPath => last.out.app = 0

\* C19 witness: a request forwarded on a record fetched earlier and still fresh, while
\* the record of another address in the cache is an errored one.
C19_Witness ==
    /\ CachedDecision
    /\ last.out = ForwardOut
    /\ now > cache[last.ip].last_updated
    /\ \E k \in Cached : cache[k].data.status_code # 200

\* C19 witness: the request of an address whose cached record is errored ended without
\* the app being called.
C19_ErroredEntryNotForwarded ==
    /\ ErrorPath
    /\ PublicRequest
    /\ ~last.lookup
    /\ last.out.app = 0

\* C20: while a record is in the cache and the lifetime that applies to it is 0
\* (invalidate_success_after for a 200 record, invalidate_error_after for any other), no
\* request of its address issues a lookup, however late.
C20_ZeroLifetimeNeverRefreshes ==
    (/\ PublicRequest
     /\ cache[last.ip] # None
     /\ \/ /\ cache[last.ip].data.status_code = 200
           /\ config.cache.invalidate_success_after = 0
        \/ /\ cache[last.ip].data.status_code # 200
           /\ config.cache.invalidate_error_after = 0)
        => ~last.lookup

\* C20 witness: MaxTime after an errored record was cached with invalidate_error_after 0,
\* a request of its address ended without a lookup.
C20_Witness ==
    /\ PublicRequest
    /\ cache[last.ip] # None
    /\ cache[last.ip].data.status_code # 200
    /\ config.cache.invalidate_error_after = 0
    /\ cache[last.ip].last_updated = 0
    /\ now = MaxTime
    /\ ~last.lookup

\* C20 witness, the other case: a 200 record with invalidate_success_after 0.
C20_SuccessRecordKept ==
    /\ PublicRequest
    /\ cache[last.ip] # None
    /\ cache[last.ip].data.status_code = 200
    /\ config.cache.invalidate_success_after = 0
    /\ cache[last.ip].last_updated = 0
    /\ now = MaxTime
    /\ ~last.lookup

\* the lifetime of the class of a record: invalidate_success_after when its status_code
\* is 200, invalidate_error_after otherwise, whatever its payload
ClassLifetime(cfg, entry) ==
    IF entry.data.status_code = 200 THEN cfg.cache.invalidate_success_after
    ELSE cfg.cache.invalidate_error_after

\* the step just taken entered the lookup branch: it awaits the lookup or was rate limited
RefreshAttempted == last.lookup \/ last.out.sent = RateLimited(reset)

\* C21: a cached record is successful iff its status_code is 200; with a non-zero
\* lifetime for its class, a request of its address attempts a refresh exactly when
\* now >= last_updated + that lifetime, and reuses the record before.
C21_RefreshExactlyWhenExpired ==
    (/\ PublicRequest
     /\ cache[last.ip] # None
     /\ ClassLifetime(config, cache[last.ip]) # 0)
        => (RefreshAttempted
                <=> now >= cache[last.ip].last_updated + ClassLifetime(config, cache[last.ip]))

\* C21 witness: an errored record is refreshed one instant after it was written, an
\* instant at which a successful record of the other address is still reused.
C21_Witness ==
    /\ PublicRequest
    /\ cache[last.ip] # None
    /\ cache[last.ip].data.status_code # 200
    /\ config.cache.invalidate_error_after = 1
    /\ now = cache[last.ip].last_updated + 1
    /\ last.lookup
    /\ \E k \in Cached : /\ cache[k].data.status_code = 200
                         /\ cache[k].last_updated < now
                         /\ now < cache[k].last_updated + config.cache.invalidate_success_after

\* C21 witness: an errored record whose payload is a JSON document is reused at the
\* instant it was written.
C21_ErroredReused ==
    /\ PublicRequest
    /\ cache[last.ip] # None
    /\ cache[last.ip].data.status_code # 200
    /\ cache[last.ip].data.response # None
    /\ config.cache.invalidate_error_after = 1
    /\ now = cache[last.ip].last_updated
    /\ ~last.lookup

\* C21 witness: a successful record is refreshed invalidate_success_after after it was
\* written.
C21_SuccessRefreshed ==
    /\ PublicRequest
    /\ cache[last.ip] # None
    /\ cache[last.ip].data.status_code = 200
    /\ config.cache.invalidate_success_after = 2
    /\ now = cache[last.ip].last_updated + 2
    /\ last.lookup

\* C22: an http request whose client address is not a valid IP literal is answered with
\* the 503, and causes no lookup, no cache write and no call of the downstream app.
C22_MalformedIpIs503 ==
    (/\ config # None
     /\ last.step = "request"
     /\ last.type = "http"
     /\ Malformed(last.client))
        => /\ last.out = Send(ServiceUnavailable)
           /\ ~last.lookup

\* What holds for such a request: it ends with the ValueError of ipaddress.ip_address,
\* nothing sent, no lookup, the app not called.
C22_MalformedIpRaises ==
    (/\ config # None
     /\ last.step = "request"
     /\ last.type = "http"
     /\ Malformed(last.client))
        => /\ last.out = Raise("ValueError")
           /\ ~last.lookup

\* the enrichment the step just taken read from its record, on the path it took
DecidedEnrichment ==
    IF last.step = "lookup_return" THEN FreshEnrichment(DecidedRecord)
    ELSE CachedEnrichment(DecidedRecord)

\* no rule tested before the asn rule matches the step just taken
NoEarlierRuleThanAsn ==
    \A i \in MatchingRules(config, last.ip, DecidedRecord) : RuleOrder[i] \notin
        {"inbound bad IP", "outbound bad IP", "continent", "country"}

\* the asn rule decides as stated: never on an empty "as", and on the integer after "AS"
\* otherwise
AsnRuleDecides ==
    /\ last.out.log = "ASN"
            => /\ DecidedRecord.as # ""
               /\ AsnOf(DecidedRecord.as) \in config.block_asn.block_asn
    /\ (NoExceptionApplies /\ NoEarlierRuleThanAsn)
            => (last.out.log = "ASN"
                    <=> /\ DecidedRecord.as # ""
                        /\ AsnOf(DecidedRecord.as) \in config.block_asn.block_asn)

\* C23: with an empty "as" the ASN is null and the asn rule never denies, after a lookup
\* and on a cached record alike; with a non-empty "as" the ASN is the integer after the
\* leading "AS" of the first token and the asn rule denies iff it is in block_asn.
C23_AsnNullOrInteger ==
    DecisionMade
        => /\ DecidedRecord.as = "" => DecidedEnrichment.asn = None
           /\ DecidedRecord.as # "" => DecidedEnrichment.asn = AsnInt(AsnOf(DecidedRecord.as))
           /\ AsnRuleDecides

\* What holds on both paths: with an empty "as" the ASN is no integer (None on a cached
\* record, the empty string after a lookup), and the asn rule decides as stated.
C23_AsnNoIntegerOrInteger ==
    DecisionMade
        => /\ DecidedRecord.as = "" => "int" \notin DOMAIN DecidedEnrichment.asn
           /\ DecidedRecord.as # "" => DecidedEnrichment.asn = AsnInt(AsnOf(DecidedRecord.as))
           /\ AsnRuleDecides

\* the asn rule denied on a cached record whose "as" is "AS15169 Google LLC"
C23_AsnDeniedOnCachedRecord ==
    /\ CachedDecision
    /\ last.out.log = "ASN"
    /\ DecidedEnrichment.asn = AsnInt(15169)

\* C24: self.reset is 0 after construction and changes only in a step in which a lookup
\* returned HTTP 200 with X-Rl equal to "0"; every other step of __call__ leaves it as
\* it was.
C24_ResetFrame ==
    /\ reset = 0
    /\ [][ reset' # reset
                => /\ last'.step = "lookup_return"
                   /\ last'.resp.kind = "http"
                   /\ last'.resp.status_code = 200
                   /\ last'.resp.X_Rl = "0"
         ]_vars

\* C24 witness: a lookup answered 200 with quota left, its record was cached and the
\* request forwarded, an errored record of another address is in the cache, and
\* self.reset is still 0.
C24_Witness ==
    /\ LookupAnswered(200)
    /\ last.resp.X_Rl # "0"
    /\ last.out = ForwardOut
    /\ \E k \in Cached : cache[k].data.status_code # 200
    /\ reset = 0

\* both calls are suspended on a lookup for the same address
BothAwaitSameIp ==
    \E p, q \in Procs : /\ p # q
                        /\ req[p].pc = "lookup"
                        /\ req[q].pc = "lookup"
                        /\ req[p].ip = req[q].ip

\* how often a key occurs in the recency order
Occurrences(order, key) == Cardinality({i \in 1..Len(order) : order[i] = key})

\* C25: two calls for the same address may both be suspended on their own lookup (no
\* single flight); whenever a lookup returns a successful record, also over the record
\* the other call has just written, the cache holds one record for the address, the one
\* of this return, and no more than cache.size records.
C25_LastWriteWins ==
    [][ FreshDecision'
            => /\ cache'[last'.ip] = Entry(200, last'.resp.json, now)
               /\ Occurrences(lru', last'.ip) = 1
               /\ Cardinality({k \in Addresses : cache'[k] # None}) <= config.cache.size
               /\ cache[last'.ip] # None
                    => /\ last'.replaced = cache[last'.ip]
                       /\ {k \in Addresses : cache'[k] # None} = Cached
      ]_vars

\* C25 witness: both calls have returned; the second return replaced a different
\* successful record written at this same instant, which was fresh, so the second call
\* had passed the cache check before the first one wrote.
C25_Witness ==
    /\ FreshDecision
    /\ \A p \in Procs : req[p].pc = "idle"
    /\ config.cache.invalidate_success_after = 2
    /\ last.replaced # None
    /\ last.replaced.data.status_code = 200
    /\ last.replaced.last_updated = now
    /\ last.replaced.data.response # last.resp.json
    /\ cache[last.ip] = Entry(200, last.resp.json, now)
    /\ Occurrences(lru, last.ip) = 1
    /\ Cardinality(Cached) <= config.cache.size

\* C25 witness: no single flight, two lookups for one address are in flight at once.
C25_TwoLookupsInFlight ==
    /\ config # None
    /\ BothAwaitSameIp
    /\ \A k \in PublicIPs : cache[k] = None

\* the step just taken is a request that skipped the lookup branch: its record was fresh
FoundFresh == PublicRequest /\ ~RefreshAttempted

\* the decision of the cached path on a record
DecisionOn(cfg, ip, path, entry) ==
    IF cfg.response.all # None
    THEN CachedRulesAll(cfg, ip, path, CachedEnrichment(entry.data.response))
    ELSE CachedRules(cfg, ip, path, CachedEnrichment(entry.data.response))

\* C26: whatever the other calls do at their suspension points, a request that found a
\* fresh record for its address decides on that very record: the record is in the
\* cache when it is read, the read does not fail on a missing key, and the request has
\* made the key the most recently used.
C26_ReadsTheEntryItFound ==
    FoundFresh
        => /\ cache[last.ip] # None
           /\ Len(lru) > 0 /\ lru[Len(lru)] = last.ip
           /\ cache[last.ip].data.status_code = 200
                => /\ last.out.raised = NoError
                   /\ last.out = DecisionOn(config, last.ip, last.path, cache[last.ip])

\* C26 witness: a request decided on its cached record while the other call is
\* suspended on a lookup for another address whose return will evict that record.
C26_Witness ==
    /\ FoundFresh
    /\ config.cache.size = 1
    /\ cache[last.ip] # None
    /\ cache[last.ip].data.status_code = 200
    /\ last.out.raised = NoError
    /\ \E q \in Procs : /\ req[q].pc = "lookup"
                        /\ req[q].ip # last.ip
                        /\ req[q].ip \in PublicIPs

====
